---- MODULE Spec2Model ----
(***************************************************************************)
(* Model of the fire thermal simulation and of the crafting state machine  *)
(* of sunrosa/ember (src/entity/fire.rs, item.rs, craft.rs, player.rs,     *)
(* asset.rs, math.rs).                                                     *)
(*                                                                         *)
(* The program computes in f64.  The model computes in fixed point:        *)
(*   temperatures          in 1/TempScale   kelvin,                        *)
(*   energies, progress    in 1/EnergyScale energy units,                  *)
(*   times                 in 1/TimeScale   time units,                    *)
(*   activation percentage in 1/PctScale,                                  *)
(*   the values of a stat  in 1/StatScale,                                 *)
(* and every f64 operation that leaves the grid is rounded to the nearest  *)
(* grid point (Round), as f64 rounds to the nearest representable value.   *)
(***************************************************************************)
EXTENDS Integers, Sequences, FiniteSets, TLC

VARIABLES fire, added, inventory, inserted, craft, progressed, hit_points,
          overflow_checks, last

vars == <<fire, added, inventory, inserted, craft, progressed, hit_points,
          overflow_checks, last>>

(***************************************************************************)
(* Fixed point                                                             *)
(***************************************************************************)
TempScale == 20
EnergyScale == 10
TimeScale == 8
PctScale == 1000

\* n / d rounded to the nearest integer, halves away from zero (d > 0)
Round(n, d) ==
    IF n >= 0 THEN (n + (d \div 2)) \div d ELSE 0 - (((0 - n) + (d \div 2)) \div d)

\* CeilU32 giving one tick at least
CeilU32_at_least_one(n, d) ==
    IF n <= 0 THEN 1 ELSE (n + d - 1) \div d

\* f64::ceil(n / d) as u32: the cast saturates, a negative quotient gives 0
CeilU32(n, d) ==
    IF n <= 0 THEN 0 ELSE (n + d - 1) \div d

\* Option<f64>
None == <<>>
Some(v) == <<v>>
is_some(o) == o # <<>>
unwrap(o) == o[1]

(***************************************************************************)
(* Assets (asset.rs)                                                       *)
(***************************************************************************)
ItemId == {"Twig", "SmallStick", "MediumStick", "LargeStick", "MediumLog",
           "LargeLog", "Leaves", "SmallBundle", "MediumBundle"}

\* burn_energy by item, energy units
BurnEnergyOf(id) ==
    CASE id = "Twig" -> 25
      [] id = "SmallStick" -> 300
      [] id = "MediumStick" -> 1000
      [] id = "LargeStick" -> 2000
      [] id = "MediumLog" -> 3500
      [] id = "LargeLog" -> 5000
      [] id = "Leaves" -> 100
      [] id = "SmallBundle" -> 1000
      [] id = "MediumBundle" -> 2000

\* ItemId::fuel: every item of the table is a fuel; the table's `_ => None`
\* arm is reached by no ItemId.  873.15 K = 17463/20, 533.15 K = 10663/20,
\* 773.15 K = 15463/20, 673.15 K = 13463/20; activation_coefficient in 1/100.
fuel(id) ==
    IF id = "Leaves"
    THEN Some([burn_energy |-> BurnEnergyOf(id) * EnergyScale,
               burn_temperature |-> 15463,
               activation_coefficient |-> 150,
               minimum_activation_temperature |-> 13463])
    ELSE Some([burn_energy |-> BurnEnergyOf(id) * EnergyScale,
               burn_temperature |-> 17463,
               activation_coefficient |-> 50,
               minimum_activation_temperature |-> 10663])

\* fuel.burn_energy * fuel.activation_coefficient
activation_threshold(fu) == (fu.burn_energy * fu.activation_coefficient) \div 100

(***************************************************************************)
(* BurningItem (item.rs)                                                   *)
(***************************************************************************)
\* BurningItem::new; NotFlammable when the item has no fuel data
BurningItem_new(id) ==
    IF ~is_some(fuel(id)) THEN [ok |-> FALSE]
    ELSE [ok |-> TRUE,
          item |-> [item |-> id,
                    fuel |-> unwrap(fuel(id)),
                    remaining_energy |-> unwrap(fuel(id)).burn_energy,
                    activation_progress |-> Some(0),
                    burned_state |-> "Fresh"]]

\* BurningItem::new_already_burning, remaining_percentage in 1/100
new_already_burning(id, remaining_percentage) ==
    [item |-> id,
     fuel |-> unwrap(fuel(id)),
     remaining_energy |-> Round(unwrap(fuel(id)).burn_energy * remaining_percentage, 100),
     activation_progress |-> None,
     burned_state |-> "Burning"]

\* BurningItem::activation_percentage, in 1/PctScale; unwrap panics on None
activation_percentage(it) ==
    Round(unwrap(it.activation_progress) * PctScale, activation_threshold(it.fuel))

(***************************************************************************)
(* math.rs                                                                 *)
(***************************************************************************)
RECURSIVE SumProducts(_)
SumProducts(data) ==
    IF data = <<>> THEN 0
    ELSE data[1][1] * data[1][2] + SumProducts(Tail(data))

RECURSIVE SumWeights(_)
SumWeights(data) ==
    IF data = <<>> THEN 0 ELSE data[1][2] + SumWeights(Tail(data))

\* weighted_mean of a sequence of <<value, weight>>
weighted_mean(data) == Round(SumProducts(data), SumWeights(data))

(***************************************************************************)
(* Fire (fire.rs)                                                          *)
(***************************************************************************)
\* Fire::init, with the tick resolution given to with_tick_resolution
Fire_init(resolution) ==
    [items |-> <<new_already_burning("MediumStick", 80),
                 new_already_burning("MediumStick", 80),
                 new_already_burning("MediumStick", 80)>>,
     temperature |-> 17463,
     ambient_temperature |-> 5903,
     tick_resolution |-> resolution,
     fresh_fuel_radiates |-> FALSE,
     weight_of_ambient |-> 3000 * EnergyScale,
     temperature_delta |-> 0,
     energy_remaining_delta |-> 0,
     ambient_temperature_delta |-> 0,
     time_alive |-> 0]

RECURSIVE SumEnergy(_)
SumEnergy(its) ==
    IF its = <<>> THEN 0 ELSE its[1].remaining_energy + SumEnergy(Tail(its))

energy_remaining(f) == SumEnergy(f.items)

burning_energy_remaining(f) ==
    SumEnergy(SelectSeq(f.items, LAMBDA x : x.burned_state = "Burning"))

fresh_energy_remaining(f) ==
    SumEnergy(SelectSeq(f.items, LAMBDA x : x.burned_state = "Fresh"))

\* is_alive looking for any item, Burning or not
is_alive_with_items(f) == f.items # <<>>

\* Fire::is_alive
is_alive(f) == \E i \in 1..Len(f.items) : f.items[i].burned_state = "Burning"

has_fresh_items(f) == \E i \in 1..Len(f.items) : f.items[i].burned_state = "Fresh"

\* add_item putting the item in the fire already burning
add_item_burning(f, id) ==
    [ok |-> TRUE, fire |-> [f EXCEPT !.items = Append(@, new_already_burning(id, 100))]]

\* Fire::add_item
add_item(f, id) ==
    LET n == BurningItem_new(id)
    IN  IF n.ok THEN [ok |-> TRUE, fire |-> [f EXCEPT !.items = Append(@, n.item)]]
        ELSE [ok |-> FALSE, fire |-> f]

\* add_items looping over 0..=count
add_items_inclusive(f, id, count) ==
    IF add_item(f, id).ok
    THEN [ok |-> TRUE,
          fire |-> [f EXCEPT !.items =
                      @ \o [i \in 1..(count + 1) |-> BurningItem_new(id).item]]]
    ELSE [ok |-> FALSE, fire |-> f]

\* Fire::add_items: the fire is moved into the call, an error drops it and the
\* caller keeps nothing but the error
RECURSIVE add_items(_, _, _)
add_items(f, id, count) ==
    IF count = 0 THEN [ok |-> TRUE, fire |-> f]
    ELSE LET r == add_item(f, id)
         IN  IF r.ok THEN add_items(r.fire, id, count - 1) ELSE r

\* the ignition test without its comparison of the progress
ignites_when_hot(f, it, progress) ==
    f.temperature >= it.fuel.minimum_activation_temperature

\* the ignition test of heat_item_tick, made on the progress after the
\* tick's gain or decay
ignites(f, it, progress) ==
    /\ progress >= activation_threshold(it.fuel)
    /\ f.temperature >= it.fuel.minimum_activation_temperature

\* heat_item_tick forgetting set_activation_progress(None) on ignition
heat_item_tick_keeps_progress(f, it) ==
    LET hot == f.temperature >= it.fuel.minimum_activation_temperature
        gain == Round(f.temperature * f.tick_resolution,
                      (200 * TempScale * TimeScale) \div EnergyScale)
        radiated == Round((it.fuel.burn_temperature - f.ambient_temperature)
                             * activation_percentage(it), PctScale)
        decay == Round(radiated * 3 * f.tick_resolution,
                       (100 * TempScale * TimeScale) \div EnergyScale)
        progress == IF hot THEN unwrap(it.activation_progress) + gain
                    ELSE unwrap(it.activation_progress) - decay
    IN  IF ignites(f, it, progress)
        THEN [it EXCEPT !.activation_progress = Some(progress), !.burned_state = "Burning"]
        ELSE [it EXCEPT !.activation_progress = Some(progress)]

\* Fire::heat_item_tick
heat_item_tick(f, it) ==
    LET hot == f.temperature >= it.fuel.minimum_activation_temperature
        gain == Round(f.temperature * f.tick_resolution,
                      (200 * TempScale * TimeScale) \div EnergyScale)
        radiated == Round((it.fuel.burn_temperature - f.ambient_temperature)
                             * activation_percentage(it), PctScale)
        decay == Round(radiated * 3 * f.tick_resolution,
                       (100 * TempScale * TimeScale) \div EnergyScale)
        progress == IF hot THEN unwrap(it.activation_progress) + gain
                    ELSE unwrap(it.activation_progress) - decay
    IN  IF ignites(f, it, progress)
        THEN [it EXCEPT !.activation_progress = None, !.burned_state = "Burning"]
        ELSE [it EXCEPT !.activation_progress = Some(progress)]

\* burning that takes no energy from the item
BurnEnergy_none(f, it) == it

\* the three steps of Fire::burn_item_tick
BurnEnergy(f, it) ==
    [it EXCEPT !.remaining_energy =
        @ - Round(f.temperature * f.tick_resolution,
                  (1000 * TempScale * TimeScale) \div EnergyScale)]

BurnSpent(it) ==
    IF it.remaining_energy <= 0
    THEN [it EXCEPT !.burned_state = "Spent", !.remaining_energy = 0]
    ELSE it

BurnRegress(f, it) ==
    IF f.temperature < it.fuel.minimum_activation_temperature
    THEN [it EXCEPT !.burned_state = "Fresh", !.activation_progress = Some(0)]
    ELSE it

\* burn_item_tick checking the temperature before the energy
burn_item_tick_spent_last(f, it) == BurnSpent(BurnRegress(f, BurnEnergy(f, it)))

\* Fire::burn_item_tick
burn_item_tick(f, it) == BurnRegress(f, BurnSpent(BurnEnergy(f, it)))

\* the loop of Fire::tick_items: every item is updated from the clone taken
\* before the loop and against the fire's pre-tick temperature
item_tick(f, it) ==
    IF it.burned_state = "Fresh" THEN heat_item_tick(f, it)
    ELSE IF it.burned_state = "Burning" THEN burn_item_tick(f, it)
    ELSE it

\* tick_items without the retain call
retain_all(its) == its

\* items.retain(|x| x.burned_state() != Spent)
retain_unspent(its) == SelectSeq(its, LAMBDA x : x.burned_state # "Spent")

\* tick_items removing a Spent item inside the loop, so that the item that
\* follows it moves into its place and is not ticked
tick_items_skipping(f) ==
    [f EXCEPT !.items =
        retain_unspent([i \in 1..Len(f.items) |->
            IF i > 1 /\ item_tick(f, f.items[i - 1]).burned_state = "Spent"
            THEN f.items[i]
            ELSE item_tick(f, f.items[i])])]

\* Fire::tick_items
tick_items(f) ==
    [f EXCEPT !.items =
        retain_unspent([i \in 1..Len(f.items) |-> item_tick(f, f.items[i])])]

\* every item counted at its burn temperature, Fresh or not
item_temperature_all_burn(f, it) == it.fuel.burn_temperature

\* the value an item contributes to the weighted mean
item_temperature(f, it) ==
    IF it.burned_state = "Burning" THEN it.fuel.burn_temperature
    ELSE IF f.fresh_fuel_radiates /\ it.burned_state = "Fresh"
            /\ f.temperature >= it.fuel.minimum_activation_temperature
         THEN f.ambient_temperature
              + Round((it.fuel.burn_temperature - f.ambient_temperature)
                         * activation_percentage(it), PctScale)
         ELSE f.ambient_temperature

\* Fire::target_temperature
target_temperature(f) ==
    weighted_mean(<<<<f.ambient_temperature, f.weight_of_ambient>>>>
                  \o [i \in 1..Len(f.items) |->
                        <<item_temperature(f, f.items[i]), f.items[i].remaining_energy>>])

\* tick_temperature moving twice as far toward the target
tick_temperature_twice(f) ==
    IF f.items # <<>>
    THEN [f EXCEPT !.temperature =
            @ + Round((target_temperature(f) - f.temperature) * f.tick_resolution,
                      25 * TimeScale)]
    ELSE [f EXCEPT !.temperature = f.ambient_temperature]

\* Fire::tick_temperature
tick_temperature(f) ==
    IF f.items # <<>>
    THEN [f EXCEPT !.temperature =
            @ + Round((target_temperature(f) - f.temperature) * f.tick_resolution,
                      50 * TimeScale)]
    ELSE [f EXCEPT !.temperature = f.ambient_temperature]

\* tick updating the temperature before the items
tick_alive_temperature_first(f) ==
    LET g == tick_items(tick_temperature(f))
    IN  [ok |-> TRUE,
         fire |-> [g EXCEPT
             !.ambient_temperature_delta = g.ambient_temperature - f.ambient_temperature,
             !.temperature_delta = g.temperature - f.temperature,
             !.energy_remaining_delta = energy_remaining(g) - energy_remaining(f),
             !.time_alive = @ + f.tick_resolution]]

\* Fire::tick past the is_alive check
tick_alive(f) ==
    LET g == tick_temperature(tick_items(f))
    IN  [ok |-> TRUE,
         fire |-> [g EXCEPT
             !.ambient_temperature_delta = g.ambient_temperature - f.ambient_temperature,
             !.temperature_delta = g.temperature - f.temperature,
             !.energy_remaining_delta = energy_remaining(g) - energy_remaining(f),
             !.time_alive = @ + f.tick_resolution]]

\* tick advancing time_alive before the is_alive check
tick_counts_first(f) ==
    IF ~is_alive(f)
    THEN [ok |-> FALSE, fire |-> [f EXCEPT !.time_alive = @ + f.tick_resolution]]
    ELSE tick_alive(f)

\* Fire::tick
tick(f) ==
    IF ~is_alive(f) THEN [ok |-> FALSE, fire |-> f] ELSE tick_alive(f)

\* Fire::tick_multiple: `for _ in 0..count { self.tick()?; }`.  `?` returns at
\* the first failing tick and the ticks made before it stay applied to the
\* fire; done counts the successful ticks.  The loop is unrolled by halves
\* (the first count/2 iterations, then the rest), which runs the same
\* iterations in the same order.
RECURSIVE tick_loop(_, _)
tick_loop(f, count) ==
    IF count = 0 THEN [ok |-> TRUE, fire |-> f, done |-> 0]
    ELSE IF count = 1 THEN [ok |-> tick(f).ok, fire |-> tick(f).fire,
                            done |-> IF tick(f).ok THEN 1 ELSE 0]
    ELSE LET a == tick_loop(f, count \div 2)
         IN  IF ~a.ok THEN a
             ELSE LET b == tick_loop(a.fire, count - (count \div 2))
                  IN  [b EXCEPT !.done = @ + a.done]

\* tick_multiple giving the fire back untouched when a tick fails
tick_multiple_atomic(f, count) ==
    IF tick_loop(f, count).ok THEN tick_loop(f, count)
    ELSE [tick_loop(f, count) EXCEPT !.fire = f]

tick_multiple(f, count) == tick_loop(f, count)

\* tick_time rounding the number of ticks down instead of up
tick_time_floor(f, time) ==
    tick_multiple(f, IF time <= 0 THEN 0 ELSE time \div f.tick_resolution)

\* Fire::tick_time
tick_time(f, time) == tick_multiple(f, CeilU32(time, f.tick_resolution))

(***************************************************************************)
(* f64 values of a BoundedFloat (math.rs): a finite value is an integer, in *)
(* grams for the capacity of an inventory and in units of 1 / StatScale    *)
(* for a stat; the two infinities and NaN are the results f64 division     *)
(* gives for a zero divisor                                                *)
(***************************************************************************)
StatScale == 10

\* f64::INFINITY: above every finite value of the model
Infinity == 1000000

\* f64::NAN: every comparison with it is false
NaN == 0 - 2000000

\* a < b on f64
f64_lt(a, b) == a # NaN /\ b # NaN /\ a < b

\* a + b on f64 (finite or NaN)
f64_add(a, b) == IF a = NaN \/ b = NaN THEN NaN ELSE a + b

\* a - b on f64 (finite or NaN)
f64_sub(a, b) == IF a = NaN \/ b = NaN THEN NaN ELSE a - b

\* a * b on f64 (b finite), b in units of 1 / StatScale
f64_mul(a, b) ==
    IF a = NaN THEN NaN
    ELSE IF a * b >= 0 THEN Round(a * b, StatScale)
    ELSE 0 - Round(0 - a * b, StatScale)

\* a / b on f64 (b finite), b in units of 1 / StatScale: x / 0.0 is an
\* infinity of the sign of x, 0.0 / 0.0 is NaN
f64_div(a, b) ==
    IF a = NaN THEN NaN
    ELSE IF b = 0 THEN (IF a = 0 THEN NaN ELSE IF a > 0 THEN Infinity ELSE 0 - Infinity)
    ELSE IF b > 0 THEN (IF a >= 0 THEN Round(a * StatScale, b)
                        ELSE 0 - Round(0 - a * StatScale, b))
    ELSE IF a >= 0 THEN 0 - Round(a * StatScale, 0 - b)
    ELSE Round(0 - a * StatScale, 0 - b)

(***************************************************************************)
(* BoundedFloat (math.rs)                                                  *)
(***************************************************************************)
\* BoundedFloat::new testing the current value before the bounds
BoundedFloat_new_current_first(current, min, max) ==
    IF f64_lt(current, min) THEN [ok |-> FALSE, err |-> "TooLow"]
    ELSE IF f64_lt(max, current) THEN [ok |-> FALSE, err |-> "TooHigh"]
    ELSE IF f64_lt(max, min) THEN [ok |-> FALSE, err |-> "InvalidBounds"]
    ELSE [ok |-> TRUE, value |-> [current |-> current, min |-> min, max |-> max]]

\* BoundedFloat::new
BoundedFloat_new(current, min, max) ==
    IF f64_lt(max, min) THEN [ok |-> FALSE, err |-> "InvalidBounds"]
    ELSE IF f64_lt(current, min) THEN [ok |-> FALSE, err |-> "TooLow"]
    ELSE IF f64_lt(max, current) THEN [ok |-> FALSE, err |-> "TooHigh"]
    ELSE [ok |-> TRUE, value |-> [current |-> current, min |-> min, max |-> max]]

\* BoundedFloat::new_zero_min
new_zero_min(current, max) == BoundedFloat_new(current, 0, max)

\* BoundedFloat::checked_set
checked_set(b, value) ==
    IF f64_lt(value, b.min) THEN [ok |-> FALSE, err |-> "TooLow"]
    ELSE IF f64_lt(b.max, value) THEN [ok |-> FALSE, err |-> "TooHigh"]
    ELSE [ok |-> TRUE, value |-> [b EXCEPT !.current = value]]

\* BoundedFloat::with_max
with_max(b, value) ==
    IF f64_lt(value, b.min) THEN [ok |-> FALSE, err |-> "InvalidBounds"]
    ELSE [ok |-> TRUE, value |-> [b EXCEPT !.max = value]]

\* BoundedFloat::with_min
with_min(b, value) ==
    IF f64_lt(b.max, value) THEN [ok |-> FALSE, err |-> "InvalidBounds"]
    ELSE [ok |-> TRUE, value |-> [b EXCEPT !.min = value]]

\* BoundedFloat::saturating_set
saturating_set(b, value) ==
    LET r == checked_set(b, value)
    IN  IF r.ok THEN r.value
        ELSE IF r.err = "TooLow" THEN checked_set(b, b.min).value
        ELSE checked_set(b, b.max).value

\* BoundedFloat::max_diff
max_diff(b) == f64_sub(b.max, b.current)

\* BoundedFloat::saturating_add, the + and += of a BoundedFloat
saturating_add(b, value) == saturating_set(b, f64_add(b.current, value))

\* BoundedFloat::saturating_sub, the - and -= of a BoundedFloat
saturating_sub(b, value) == saturating_set(b, f64_sub(b.current, value))

\* BoundedFloat::saturating_mul, the * and *= of a BoundedFloat
saturating_mul(b, value) == saturating_set(b, f64_mul(b.current, value))

\* BoundedFloat::saturating_div, the / and /= of a BoundedFloat
saturating_div(b, value) == saturating_set(b, f64_div(b.current, value))

(***************************************************************************)
(* Inventory (item.rs)                                                     *)
(***************************************************************************)
\* Item::mass (ItemId::item), grams
mass(id) ==
    CASE id = "Twig" -> 25
      [] id = "SmallStick" -> 300
      [] id = "MediumStick" -> 1000
      [] id = "LargeStick" -> 2000
      [] id = "MediumLog" -> 3500
      [] id = "LargeLog" -> 5000
      [] id = "Leaves" -> 100
      [] id = "SmallBundle" -> 1000
      [] id = "MediumBundle" -> 2000

\* Inventory::new; items is the HashMap, its DOMAIN the items with a record
Inventory_new(capacity) ==
    [items |-> [id \in {} |-> 0],
     used_capacity |-> BoundedFloat_new(0, 0, capacity).value]

\* self.items.get(&item).unwrap_or(&0)
held(inv, id) == IF id \in DOMAIN inv.items THEN inv.items[id] ELSE 0

\* *self.items.entry(item).or_default() = count
with_count(items, id, count) ==
    [k \in DOMAIN items \cup {id} |-> IF k = id THEN count ELSE items[k]]

\* self.items.remove(&item)
without(items, id) == [k \in DOMAIN items \ {id} |-> items[k]]

\* insert testing the room left before the maximum capacity
insert_available_first(inv, id, count) ==
    LET mass_of_insertion == mass(id) * count
    IN  IF max_diff(inv.used_capacity) < mass_of_insertion
        THEN [ret |-> "NoAvailableCapacity", inv |-> inv]
        ELSE [ret |-> "Ok",
              inv |-> [items |-> with_count(inv.items, id, held(inv, id) + count),
                       used_capacity |-> saturating_add(inv.used_capacity, mass_of_insertion)]]

\* Inventory::insert
insert(inv, id, count) ==
    LET mass_of_insertion == mass(id) * count
    IN  IF inv.used_capacity.max < mass_of_insertion
        THEN [ret |-> "NoCapacity", inv |-> inv]
        ELSE IF max_diff(inv.used_capacity) < mass_of_insertion
        THEN [ret |-> "NoAvailableCapacity", inv |-> inv]
        ELSE [ret |-> "Ok",
              inv |-> [items |-> with_count(inv.items, id, held(inv, id) + count),
                       used_capacity |-> saturating_add(inv.used_capacity, mass_of_insertion)]]

\* take_amount leaving the used capacity as it was
take_amount_keeps_capacity(inv, id, count) ==
    IF id \notin DOMAIN inv.items THEN [ret |-> "NotFound", inv |-> inv]
    ELSE IF inv.items[id] < count THEN [ret |-> "NotEnough", inv |-> inv]
    ELSE LET left == inv.items[id] - count
         IN  [ret |-> "Ok",
              inv |-> [inv EXCEPT !.items = IF left = 0 THEN without(inv.items, id)
                                            ELSE with_count(inv.items, id, left)]]

\* Inventory::take_amount
take_amount(inv, id, count) ==
    IF id \notin DOMAIN inv.items THEN [ret |-> "NotFound", inv |-> inv]
    ELSE IF inv.items[id] < count THEN [ret |-> "NotEnough", inv |-> inv]
    ELSE LET left == inv.items[id] - count
         IN  [ret |-> "Ok",
              inv |-> [items |-> IF left = 0 THEN without(inv.items, id)
                                 ELSE with_count(inv.items, id, left),
                       used_capacity |-> saturating_sub(inv.used_capacity, mass(id) * count)]]

\* Inventory::take_one
take_one(inv, id) == take_amount(inv, id, 1)

\* Inventory::take_all; amount is the Ok value
take_all(inv, id) ==
    IF id \notin DOMAIN inv.items THEN [ret |-> "NotFound", amount |-> 0, inv |-> inv]
    ELSE LET amount == inv.items[id]
         IN  [ret |-> "Ok", amount |-> amount,
              inv |-> [items |-> without(inv.items, id),
                       used_capacity |-> saturating_sub(inv.used_capacity,
                                                        mass(id) * amount)]]

\* Inventory::contains
contains(inv, id, amount) == held(inv, id) >= amount

\* u32 subtraction.  A result below zero overflows: a build with overflow
\* checks (a debug build) panics there, a build without them (a release
\* build) goes on with the wrapped value 2^32 - (b - a), for which Overflowed
\* stands
Overflowed == 0 - 1
u32_sub(a, b) == IF a >= b THEN a - b ELSE Overflowed

\* the Missing list of Inventory::contains_vec: one entry per wanted item
missing_items_of(inv, wanted_items) ==
    [i \in 1..Len(wanted_items) |->
        <<wanted_items[i][1], u32_sub(wanted_items[i][2], held(inv, wanted_items[i][1]))>>]

\* Inventory::contains_vec: enough for Enough, else the Missing list; panic
\* when a subtraction of the list overflows in a build with overflow checks
contains_vec(inv, wanted_items, checks) ==
    IF \A i \in 1..Len(wanted_items) : contains(inv, wanted_items[i][1], wanted_items[i][2])
    THEN [enough |-> TRUE, panic |-> FALSE, missing |-> <<>>]
    ELSE LET missing_items == missing_items_of(inv, wanted_items)
         IN  [enough |-> FALSE,
              panic |-> checks /\ \E i \in 1..Len(missing_items) :
                                      missing_items[i][2] = Overflowed,
              missing |-> missing_items]

\* the loop of take_vec_if_enough: take_amount(..).unwrap() per wanted item,
\* a failed take panics with the earlier takes applied
RECURSIVE take_each(_, _)
take_each(inv, wanted_items) ==
    IF wanted_items = <<>> THEN [ret |-> "Ok", inv |-> inv]
    ELSE LET r == take_amount(inv, wanted_items[1][1], wanted_items[1][2])
         IN  IF r.ret = "Ok" THEN take_each(r.inv, Tail(wanted_items))
             ELSE [ret |-> "panic", inv |-> inv]

\* Inventory::take_vec_if_enough
take_vec_if_enough(inv, wanted_items, checks) ==
    LET c == contains_vec(inv, wanted_items, checks)
    IN  IF c.panic THEN [ret |-> "panic", inv |-> inv, missing |-> <<>>]
        ELSE IF ~c.enough THEN [ret |-> "NotEnoughVec", inv |-> inv, missing |-> c.missing]
        ELSE [ret |-> take_each(inv, wanted_items).ret,
              inv |-> take_each(inv, wanted_items).inv,
              missing |-> <<>>]

(***************************************************************************)
(* Recipes (asset.rs, craft.rs) and Player::craft (player.rs)              *)
(***************************************************************************)
\* initialize_recipes: craft_time 100.0
RECIPE_SET ==
    <<[ingredients |-> <<<<"SmallStick", 3>>>>,
       products |-> <<<<"SmallBundle", 1>>>>,
       craft_time |-> 100 * TimeScale],
      [ingredients |-> <<<<"MediumStick", 2>>>>,
       products |-> <<<<"MediumBundle", 1>>>>,
       craft_time |-> 100 * TimeScale]>>

\* RecipeSet::filter_product
filter_product(recipes, product) ==
    SelectSeq(recipes, LAMBDA r : \E i \in 1..Len(r.products) : r.products[i][1] = product)

\* the InProgressCraft that Player::craft_with_set returns for a recipe
InProgressCraft_of(recipe) ==
    [ingredients |-> recipe.ingredients,
     products |-> recipe.products,
     recipe_time |-> recipe.craft_time,
     time_remaining |-> recipe.craft_time]

\* the loop of Player::craft_with_set over the compatible recipes
RECURSIVE craft_first(_, _, _, _)
craft_first(inv, compatible_recipes, missing_items, checks) ==
    IF compatible_recipes = <<>>
    THEN [ret |-> "MissingIngredients", inv |-> inv, missing |-> missing_items,
          craft |-> None]
    ELSE LET recipe == compatible_recipes[1]
             t == take_vec_if_enough(inv, recipe.ingredients, checks)
         IN  IF t.ret = "Ok"
             THEN [ret |-> "Ok", inv |-> t.inv, missing |-> <<>>,
                   craft |-> Some(InProgressCraft_of(recipe))]
             ELSE IF t.ret = "NotEnoughVec"
             THEN craft_first(inv, Tail(compatible_recipes), t.missing, checks)
             ELSE [ret |-> "panic", inv |-> t.inv, missing |-> <<>>, craft |-> None]

\* craft_with_set trying the compatible recipes from the last to the first
craft_with_set_backwards(inv, id, recipe_set, checks) ==
    LET compatible_recipes == filter_product(recipe_set, id)
        n == Len(compatible_recipes)
    IN  IF compatible_recipes = <<>>
        THEN [ret |-> "NoRecipe", inv |-> inv, missing |-> <<>>, craft |-> None]
        ELSE craft_first(inv, [i \in 1..n |-> compatible_recipes[n + 1 - i]], <<>>, checks)

\* Player::craft_with_set
craft_with_set(inv, id, recipe_set, checks) ==
    LET compatible_recipes == filter_product(recipe_set, id)
    IN  IF compatible_recipes = <<>>
        THEN [ret |-> "NoRecipe", inv |-> inv, missing |-> <<>>, craft |-> None]
        ELSE craft_first(inv, compatible_recipes, <<>>, checks)

(***************************************************************************)
(* InProgressCraft (craft.rs)                                              *)
(***************************************************************************)
UNCRAFT_MULTIPLIER == 4

\* uncraft_time without the division by UNCRAFT_MULTIPLIER
uncraft_time_elapsed(c) == c.recipe_time - c.time_remaining

\* InProgressCraft::uncraft_time
uncraft_time(c) == Round(c.recipe_time - c.time_remaining, UNCRAFT_MULTIPLIER)

\* what a call on a craft gives back: the fire as the call left it, the
\* result (Ready, Pending, Ok or BurntOut), the list handed out, the craft
\* handed back in Pending, and the ticks made
CraftReturn(r, ret, out, c) ==
    IF r.ok THEN [ret |-> ret, fire |-> r.fire, out |-> out, craft |-> c, ticks |-> r.done]
    ELSE [ret |-> "BurntOut", fire |-> r.fire, out |-> <<>>, craft |-> None, ticks |-> r.done]

\* complete ticking for the whole recipe time
complete_recipe_time(c, f) ==
    CraftReturn(tick_time(f, c.recipe_time), "Ok", c.products, None)

\* InProgressCraft::complete
complete(c, f) == CraftReturn(tick_time(f, c.time_remaining), "Ok", c.products, None)

\* progress ticking for max_time when the craft gets ready
progress_full_time(c, f, max_time) ==
    IF max_time >= c.time_remaining
    THEN CraftReturn(tick_time(f, max_time), "Ready", c.products, None)
    ELSE CraftReturn(tick_time(f, max_time), "Pending", <<>>,
                     Some([c EXCEPT !.time_remaining = @ - max_time]))

\* InProgressCraft::progress
progress(c, f, max_time) ==
    IF max_time >= c.time_remaining
    THEN CraftReturn(tick_time(f, c.time_remaining), "Ready", c.products, None)
    ELSE CraftReturn(tick_time(f, max_time), "Pending", <<>>,
                     Some([c EXCEPT !.time_remaining = @ - max_time]))

\* InProgressCraft::cancel
cancel(c, f) == CraftReturn(tick_time(f, uncraft_time(c)), "Ok", c.ingredients, None)

\* progress_cancel decreasing time_remaining as progress does
progress_cancel_decrease(c, f, max_time) ==
    LET time_left == uncraft_time(c)
    IN  IF max_time >= time_left
        THEN CraftReturn(tick_time(f, time_left), "Ready", c.ingredients, None)
        ELSE CraftReturn(tick_time(f, max_time), "Pending", <<>>,
                         Some([c EXCEPT !.time_remaining = @ - max_time * UNCRAFT_MULTIPLIER]))

\* InProgressCraft::progress_cancel
progress_cancel(c, f, max_time) ==
    LET time_left == uncraft_time(c)
    IN  IF max_time >= time_left
        THEN CraftReturn(tick_time(f, time_left), "Ready", c.ingredients, None)
        ELSE CraftReturn(tick_time(f, max_time), "Pending", <<>>,
                         Some([c EXCEPT !.time_remaining = @ + max_time * UNCRAFT_MULTIPLIER]))

(***************************************************************************)
(* Bounds of the model                                                     *)
(***************************************************************************)
\* items added to the fire by add_item / add_items over a run
MaxAdded == 2
\* add_items count
MaxCount == 2
\* the fire operations of SpecFire are called while the fire has made fewer
\* than MaxTicks ticks
MaxTicks == 6
\* tick_multiple count
MaxTickCount == 2
\* total weight (ambient weight + item energies, energy units) of a fire
MaxWeight == 12000
\* items added to the fire over a run of SpecCraft
MaxCraftAdded == 1
\* Inventory::insert calls over a run
MaxInserted == 1
\* items added to the fire over a run of SpecOrder
MaxOrderAdded == 1
\* the craft operations of SpecCraft are called while time_alive is below
\* MaxCraftTime time units
MaxCraftTime == 130
\* Inventory::insert calls over a run of SpecInventory
MaxStored == 3
\* items added to the fire over a run of SpecBurn
MaxBurnAdded == 1
\* ticks of a live fire over a run of SpecBurn
MaxBurnTicks == 400
\* SpecBurn feeds a lit fire once it is colder than this: 540 K
FeedBelow == 540 * TempScale

(***************************************************************************)
(* Inputs                                                                  *)
(***************************************************************************)
\* tick resolutions given to with_tick_resolution; 1.0 is that of Fire::init
ResolutionSet == {1 * TimeScale, 10 * TimeScale, 50 * TimeScale, 200 * TimeScale}
CraftResolutionSet == {1 * TimeScale, 10 * TimeScale}
OrderResolutionSet == {25 * TimeScale, 50 * TimeScale, 1000 * TimeScale}
\* items handed to add_item / add_items
AddSet == {"Twig", "Leaves", "LargeLog"}
CraftAddSet == {"LargeLog"}
\* durations handed to tick_time: 0, 0.5 and 12.5 time units
DurationSet == {0, 4, 100}
\* max_time handed to progress and progress_cancel: 0, 12.5 and 50 time units
SliceSet == {0, 100, 400}
\* items and counts handed to Inventory::insert
InsertSet == {<<"SmallStick", 3>>}
\* items handed to Player::craft
CraftSet == {"SmallBundle", "MediumBundle", "Twig"}
\* capacities in grams handed to Inventory::new: the 100.0 of the tests of
\* test.rs and the 10000.0 of Player::init
CapacitySet == {100, 10000}
\* items and counts handed to Inventory::insert in SpecInventory
StoreSet == {<<"Twig", 0>>, <<"Twig", 2>>, <<"Twig", 3>>, <<"Twig", 8>>,
             <<"Leaves", 1>>, <<"SmallStick", 3>>}
\* items asked of take_one, take_amount and take_all
TakeSet == {"Twig", "Leaves", "SmallStick"}
\* counts asked of Inventory::take_amount
TakeCountSet == {0, 2, 5}
\* lists handed to Inventory::take_vec_if_enough
WantedSet ==
    {<<<<"Twig", 2>>>>,
     <<<<"Twig", 2>>, <<"Twig", 2>>>>,
     <<<<"Twig", 2>>, <<"Leaves", 1>>>>,
     <<<<"SmallStick", 3>>, <<"Leaves", 1>>>>}
\* a recipe table in which a product has two recipes, the second of two
\* ingredients
ALTERNATE_RECIPE_SET ==
    <<[ingredients |-> <<<<"SmallStick", 3>>>>,
       products |-> <<<<"SmallBundle", 1>>>>,
       craft_time |-> 100 * TimeScale],
      [ingredients |-> <<<<"Twig", 2>>, <<"Leaves", 1>>>>,
       products |-> <<<<"SmallBundle", 1>>>>,
       craft_time |-> 50 * TimeScale],
      [ingredients |-> <<<<"MediumStick", 2>>>>,
       products |-> <<<<"MediumBundle", 1>>>>,
       craft_time |-> 100 * TimeScale]>>
\* recipe tables handed to Player::craft_with_set: that of asset.rs and the
\* alternate one
RecipeSets == {RECIPE_SET, ALTERNATE_RECIPE_SET}
\* values handed to BoundedFloat::new, in units of 1 / StatScale: -1.0, 0.0,
\* 1.0, 2.0 and 5.0
BoundSet == {0 - 10, 0, 10, 20, 50}
\* operands handed to the operations of a BoundedFloat: -1.0, 0.0, 0.5, 1.2,
\* 2.0 and 5.0
OperandSet == {0 - 10, 0, 5, 12, 20, 50}

(***************************************************************************)
(* State                                                                   *)
(***************************************************************************)
\* progressed: the sum of the max_time of the progress calls made on the
\* craft since Player::craft returned it, Reversed once progress_cancel has
\* been called on it
Reversed == 0 - 1

NoLast == [op |-> "init", ret |-> "Ok", arg |-> 0, ticks |-> 0, trans |-> {}, out |-> <<>>]

\* Player::init: capacity 10000.0 grams
Player_init_inventory == Inventory_new(10000)

\* Player::init: 100.0 hit points of at most 100.0
Player_init_hit_points == new_zero_min(100 * StatScale, 100 * StatScale).value

\* a fire of one of the resolutions with the player of Player::init.
\* hit_points is the player's BoundedFloat, None where BoundedFloat::new
\* returned an Err; overflow_checks tells whether the build panics on an
\* integer overflow (a debug build) or wraps (a release build), which no
\* operation on a fire or on a craft of the table of asset.rs depends on
InitWith(resolutions) ==
    /\ \E r \in resolutions : fire = Fire_init(r)
    /\ added = 0
    /\ inventory = Player_init_inventory
    /\ inserted = 0
    /\ craft = None
    /\ progressed = 0
    /\ hit_points = Some(Player_init_hit_points)
    /\ overflow_checks = TRUE
    /\ last = NoLast

\* the <<state before, state after>> pairs of the items in one tick
Transitions(f) ==
    {<<f.items[i].burned_state, item_tick(f, f.items[i]).burned_state>> :
        i \in 1..Len(f.items)}

RECURSIVE TransitionsOver(_, _)
TransitionsOver(f, count) ==
    IF count = 0 \/ ~is_alive(f) THEN {}
    ELSE Transitions(f) \cup TransitionsOver(tick(f).fire, count - 1)

WeightOf(f) == (f.weight_of_ambient + energy_remaining(f)) \div EnergyScale

(***************************************************************************)
(* The fire driven through its public operations                           *)
(***************************************************************************)
\* add_item called on the fire
AddItemCall(id) ==
    /\ WeightOf(fire) + BurnEnergyOf(id) <= MaxWeight
    /\ fire' = add_item(fire, id).fire
    /\ added' = added + 1
    /\ last' = [op |-> "add_item",
                ret |-> IF add_item(fire, id).ok THEN "Ok" ELSE "NotFlammable",
                arg |-> 1, ticks |-> 0, trans |-> {}, out |-> <<>>]
    /\ UNCHANGED <<inventory, inserted, craft, progressed, hit_points, overflow_checks>>

AddItem(id) ==
    /\ added + 1 <= MaxAdded
    /\ AddItemCall(id)

AddItems(id, count) ==
    /\ added + count <= MaxAdded
    /\ WeightOf(fire) + count * BurnEnergyOf(id) <= MaxWeight
    /\ fire' = add_items(fire, id, count).fire
    /\ added' = added + count
    /\ last' = [op |-> "add_items",
                ret |-> IF add_items(fire, id, count).ok THEN "Ok" ELSE "NotFlammable",
                arg |-> count, ticks |-> 0, trans |-> {}, out |-> <<>>]
    /\ UNCHANGED <<inventory, inserted, craft, progressed, hit_points, overflow_checks>>

\* a dead fire can always be ticked (the call fails); a live one while its
\* number of ticks is below MaxTicks
CanTick == ~is_alive(fire) \/ fire.time_alive < MaxTicks * fire.tick_resolution

\* the fire and the record of the call after a tick, tick_multiple or
\* tick_time that returned r, having been asked for count ticks
TickCall(op, r, arg, count) ==
    /\ fire' = r.fire
    /\ last' = [op |-> op, ret |-> IF r.ok THEN "Ok" ELSE "BurntOut", arg |-> arg,
                ticks |-> r.done, trans |-> TransitionsOver(fire, count), out |-> <<>>]
    /\ UNCHANGED <<added, inventory, inserted, craft, progressed, hit_points,
                   overflow_checks>>

Tick ==
    /\ CanTick
    /\ TickCall("tick", [ok |-> tick(fire).ok, fire |-> tick(fire).fire,
                          done |-> IF tick(fire).ok THEN 1 ELSE 0], 1, 1)

TickMultiple(count) ==
    /\ CanTick
    /\ TickCall("tick_multiple", tick_multiple(fire, count), count, count)

TickTime(time) ==
    /\ CanTick
    /\ TickCall("tick_time", tick_time(fire, time), time,
                CeilU32(time, fire.tick_resolution))

InitFire == InitWith(ResolutionSet)

NextFire ==
    \/ \E id \in AddSet : AddItem(id)
    \/ \E id \in AddSet, count \in 0..MaxCount : AddItems(id, count)
    \/ Tick
    \/ \E count \in 0..MaxTickCount : TickMultiple(count)
    \/ \E time \in DurationSet : TickTime(time)

SpecFire == InitFire /\ [][NextFire]_vars

(***************************************************************************)
(* A fire fed once and ticked, for the properties that compare the tick of *)
(* a fire with the tick of the same fire holding its items in another      *)
(* order                                                                   *)
(***************************************************************************)
AddOne(id) ==
    /\ added + 1 <= MaxOrderAdded
    /\ AddItemCall(id)

InitOrder == InitWith(OrderResolutionSet)

NextOrder ==
    \/ \E id \in AddSet : AddOne(id)
    \/ Tick

SpecOrder == InitOrder /\ [][NextOrder]_vars

(***************************************************************************)
(* A fire fed before it is lit and when it gets low, then ticked until it  *)
(* burns out                                                               *)
(***************************************************************************)
\* add_item on a fire that has not ticked yet or has cooled below FeedBelow
Feed(id) ==
    /\ added + 1 <= MaxBurnAdded
    /\ fire.time_alive = 0 \/ fire.temperature < FeedBelow
    /\ AddItemCall(id)

\* add_items under the conditions of Feed
FeedMany(id, count) ==
    /\ fire.time_alive = 0 \/ fire.temperature < FeedBelow
    /\ added + count <= MaxBurnAdded
    /\ WeightOf(fire) + count * BurnEnergyOf(id) <= MaxWeight
    /\ fire' = add_items(fire, id, count).fire
    /\ added' = added + count
    /\ last' = [op |-> "add_items",
                ret |-> IF add_items(fire, id, count).ok THEN "Ok" ELSE "NotFlammable",
                arg |-> count, ticks |-> 0, trans |-> {}, out |-> <<>>]
    /\ UNCHANGED <<inventory, inserted, craft, progressed, hit_points, overflow_checks>>

\* tick() called again and again; a live fire is ticked while its number of
\* ticks is below MaxBurnTicks, which no fire of the model lives to
Burn ==
    /\ ~is_alive(fire) \/ fire.time_alive < MaxBurnTicks * fire.tick_resolution
    /\ TickCall("tick", [ok |-> tick(fire).ok, fire |-> tick(fire).fire,
                          done |-> IF tick(fire).ok THEN 1 ELSE 0], 1, 1)

NextBurn ==
    \/ \E id \in AddSet : Feed(id)
    \/ \E id \in AddSet, count \in 0..MaxCount : FeedMany(id, count)
    \/ Burn

\* a tick() call made now would change the state: Burn is enabled and does
\* not repeat the BurntOut already recorded
BurnChanges ==
    IF is_alive(fire) THEN fire.time_alive < MaxBurnTicks * fire.tick_resolution
    ELSE last # [op |-> "tick", ret |-> "BurntOut", arg |-> 1, ticks |-> 0,
                 trans |-> {}, out |-> <<>>]

\* a tick() call is recorded: last takes one of the records such a call leaves
TickCalled ==
    /\ BurnChanges
    /\ last' \in [op : {"tick"}, ret : {"Ok", "BurntOut"}, arg : {1}, ticks : {0, 1},
                  trans : SUBSET ({"Fresh", "Burning"} \X {"Fresh", "Burning", "Spent"}),
                  out : {<<>>}]

\* the caller goes on calling tick(): while a call would change the state,
\* one is eventually made
SpecBurn == InitFire /\ [][NextBurn]_vars /\ WF_last(TickCalled)

(***************************************************************************)
(* The player crafting at the fire                                         *)
(***************************************************************************)
Insert(id, count) ==
    LET r == insert(inventory, id, count)
    IN  /\ inserted < MaxInserted
        /\ inventory' = r.inv
        /\ inserted' = inserted + 1
        /\ last' = [op |-> "insert", ret |-> r.ret, arg |-> count, ticks |-> 0, trans |-> {},
                    out |-> <<>>]
        /\ UNCHANGED <<fire, added, craft, progressed, hit_points, overflow_checks>>

\* Player::craft; the model holds one craft at a time
Craft(id) ==
    LET r == craft_with_set(inventory, id, RECIPE_SET, overflow_checks)
    IN  /\ craft = None
        /\ inventory' = r.inv
        /\ craft' = r.craft
        /\ progressed' = 0
        /\ last' = [op |-> "craft", ret |-> r.ret, arg |-> 0, ticks |-> 0, trans |-> {},
                    out |-> r.missing]
        /\ UNCHANGED <<fire, added, inserted, hit_points, overflow_checks>>

CraftCall(op, r, arg, p) ==
    /\ fire.time_alive < MaxCraftTime * TimeScale
    /\ fire' = r.fire
    /\ craft' = r.craft
    /\ progressed' = p
    /\ last' = [op |-> op, ret |-> r.ret, arg |-> arg, ticks |-> r.ticks, trans |-> {},
                out |-> r.out]
    /\ UNCHANGED <<added, inventory, inserted, hit_points, overflow_checks>>

\* add_item called on the fire the player crafts at
AddFuel(id) ==
    /\ added + 1 <= MaxCraftAdded
    /\ AddItemCall(id)

Complete ==
    /\ craft # None
    /\ CraftCall("complete", complete(unwrap(craft), fire), 0, progressed)

Progress(max_time) ==
    /\ craft # None
    /\ CraftCall("progress", progress(unwrap(craft), fire, max_time), max_time,
                 IF progressed = Reversed THEN Reversed ELSE progressed + max_time)

Cancel ==
    /\ craft # None
    /\ CraftCall("cancel", cancel(unwrap(craft), fire), 0, progressed)

ProgressCancel(max_time) ==
    /\ craft # None
    /\ CraftCall("progress_cancel", progress_cancel(unwrap(craft), fire, max_time),
                 max_time, Reversed)

InitCraft == InitWith(CraftResolutionSet)

NextCraft ==
    \/ \E id \in CraftAddSet : AddFuel(id)
    \/ \E e \in InsertSet : Insert(e[1], e[2])
    \/ \E id \in CraftSet : Craft(id)
    \/ Complete
    \/ \E max_time \in SliceSet : Progress(max_time)
    \/ Cancel
    \/ \E max_time \in SliceSet : ProgressCancel(max_time)

SpecCraft == InitCraft /\ [][NextCraft]_vars

(***************************************************************************)
(* An inventory filled, emptied by lists and crafted from                  *)
(***************************************************************************)
\* Inventory::insert
Store(id, count) ==
    LET r == insert(inventory, id, count)
    IN  /\ inserted < MaxStored
        /\ inventory' = r.inv
        /\ inserted' = inserted + 1
        /\ last' = [op |-> "insert", ret |-> r.ret, arg |-> <<id, count>>, ticks |-> 0,
                    trans |-> {}, out |-> <<>>]
        /\ UNCHANGED <<fire, added, craft, progressed, hit_points, overflow_checks>>

\* Inventory::take_vec_if_enough
TakeVec(wanted_items) ==
    LET r == take_vec_if_enough(inventory, wanted_items, overflow_checks)
    IN  /\ inventory' = r.inv
        /\ last' = [op |-> "take_vec_if_enough", ret |-> r.ret, arg |-> wanted_items,
                    ticks |-> 0, trans |-> {}, out |-> r.missing]
        /\ UNCHANGED <<fire, added, inserted, craft, progressed, hit_points,
                       overflow_checks>>

\* Inventory::take_one
TakeOne(id) ==
    LET r == take_one(inventory, id)
    IN  /\ inventory' = r.inv
        /\ last' = [op |-> "take_one", ret |-> r.ret, arg |-> <<id, 1>>, ticks |-> 0,
                    trans |-> {}, out |-> <<>>]
        /\ UNCHANGED <<fire, added, inserted, craft, progressed, hit_points,
                       overflow_checks>>

\* Inventory::take_amount
TakeAmount(id, count) ==
    LET r == take_amount(inventory, id, count)
    IN  /\ inventory' = r.inv
        /\ last' = [op |-> "take_amount", ret |-> r.ret, arg |-> <<id, count>>,
                    ticks |-> 0, trans |-> {}, out |-> <<>>]
        /\ UNCHANGED <<fire, added, inserted, craft, progressed, hit_points,
                       overflow_checks>>

\* Inventory::take_all; out carries the number of items taken
TakeAll(id) ==
    LET r == take_all(inventory, id)
    IN  /\ inventory' = r.inv
        /\ last' = [op |-> "take_all", ret |-> r.ret, arg |-> <<id, 0>>, ticks |-> 0,
                    trans |-> {}, out |-> <<r.amount>>]
        /\ UNCHANGED <<fire, added, inserted, craft, progressed, hit_points,
                       overflow_checks>>

\* Player::craft_with_set
CraftWith(id, recipe_set) ==
    LET r == craft_with_set(inventory, id, recipe_set, overflow_checks)
    IN  /\ inventory' = r.inv
        /\ craft' = r.craft
        /\ last' = [op |-> "craft", ret |-> r.ret, arg |-> <<id, recipe_set>>, ticks |-> 0,
                    trans |-> {}, out |-> r.missing]
        /\ UNCHANGED <<fire, added, inserted, progressed, hit_points, overflow_checks>>

InitInventory ==
    /\ fire = Fire_init(1 * TimeScale)
    /\ added = 0
    /\ \E capacity \in CapacitySet : inventory = Inventory_new(capacity)
    /\ inserted = 0
    /\ craft = None
    /\ progressed = 0
    /\ hit_points = Some(Player_init_hit_points)
    /\ overflow_checks \in BOOLEAN
    /\ last = NoLast

NextInventory ==
    \/ \E e \in StoreSet : Store(e[1], e[2])
    \/ \E wanted_items \in WantedSet : TakeVec(wanted_items)
    \/ \E id \in TakeSet : TakeOne(id)
    \/ \E id \in TakeSet, count \in TakeCountSet : TakeAmount(id, count)
    \/ \E id \in TakeSet : TakeAll(id)
    \/ \E id \in CraftSet, recipe_set \in RecipeSets : CraftWith(id, recipe_set)

SpecInventory == InitInventory /\ [][NextInventory]_vars

(***************************************************************************)
(* A BoundedFloat built by new and updated through its operations          *)
(***************************************************************************)
\* the BoundedFloat after a call that returned the Result r: an Err leaves
\* the caller with the value it had
StatCall(op, r, value) ==
    /\ hit_points # None
    /\ hit_points' = IF r.ok THEN Some(r.value) ELSE hit_points
    /\ last' = [op |-> op, ret |-> IF r.ok THEN "Ok" ELSE r.err, arg |-> value, ticks |-> 0,
                trans |-> {}, out |-> <<>>]
    /\ UNCHANGED <<fire, added, inventory, inserted, craft, progressed, overflow_checks>>

CheckedSet(value) ==
    /\ hit_points # None
    /\ StatCall("checked_set", checked_set(unwrap(hit_points), value), value)

SaturatingSet(value) ==
    /\ hit_points # None
    /\ StatCall("saturating_set",
                [ok |-> TRUE, value |-> saturating_set(unwrap(hit_points), value)], value)

\* b + value, as in Player::heal
Add(value) ==
    /\ hit_points # None
    /\ StatCall("add", [ok |-> TRUE, value |-> saturating_add(unwrap(hit_points), value)],
                value)

\* b - value, as in Player::damage
Sub(value) ==
    /\ hit_points # None
    /\ StatCall("sub", [ok |-> TRUE, value |-> saturating_sub(unwrap(hit_points), value)],
                value)

Mul(value) ==
    /\ hit_points # None
    /\ StatCall("mul", [ok |-> TRUE, value |-> saturating_mul(unwrap(hit_points), value)],
                value)

Div(value) ==
    /\ hit_points # None
    /\ StatCall("div", [ok |-> TRUE, value |-> saturating_div(unwrap(hit_points), value)],
                value)

WithMax(value) ==
    /\ hit_points # None
    /\ StatCall("with_max", with_max(unwrap(hit_points), value), value)

WithMin(value) ==
    /\ hit_points # None
    /\ StatCall("with_min", with_min(unwrap(hit_points), value), value)

\* BoundedFloat::new called with three values; hit_points is None when it
\* returned an Err
InitBounded ==
    /\ fire = Fire_init(1 * TimeScale)
    /\ added = 0
    /\ inventory = Player_init_inventory
    /\ inserted = 0
    /\ craft = None
    /\ progressed = 0
    /\ overflow_checks = TRUE
    /\ \E current \in BoundSet, min \in BoundSet, max \in BoundSet :
          LET r == BoundedFloat_new(current, min, max)
          IN  /\ hit_points = IF r.ok THEN Some(r.value) ELSE None
              /\ last = [op |-> "new", ret |-> IF r.ok THEN "Ok" ELSE r.err,
                         arg |-> <<current, min, max>>, ticks |-> 0, trans |-> {},
                         out |-> <<>>]

NextBounded ==
    \/ \E value \in OperandSet : CheckedSet(value)
    \/ \E value \in OperandSet : SaturatingSet(value)
    \/ \E value \in OperandSet : Add(value)
    \/ \E value \in OperandSet : Sub(value)
    \/ \E value \in OperandSet : Mul(value)
    \/ \E value \in OperandSet : Div(value)
    \/ \E value \in OperandSet : WithMax(value)
    \/ \E value \in OperandSet : WithMin(value)

SpecBounded == InitBounded /\ [][NextBounded]_vars

(***************************************************************************)
(* Properties of the fire                                                  *)
(***************************************************************************)
ItemsOf(f) == {f.items[i] : i \in 1..Len(f.items)}

NoBurning(f) == \A it \in ItemsOf(f) : it.burned_state # "Burning"

\* C1: tick() returns BurntOut if and only if no item of the fire is Burning
\* immediately before the call, and a tick that returns BurntOut leaves the
\* whole fire (items, temperature, time_alive, the three deltas) unchanged.
C1_TickBurntOut ==
    [][last'.op = "tick" =>
         /\ (last'.ret = "BurntOut") <=> NoBurning(fire)
         /\ (last'.ret = "BurntOut") => fire' = fire]_vars

\* a tick refused on a fire that had been ticked before and still holds items
C1_Witness ==
    /\ last.op = "tick"
    /\ last.ret = "BurntOut"
    /\ fire.time_alive > 0
    /\ fire.items # <<>>

\* C2: a fire to which nothing is added any more and which is ticked until
\* tick() fails ends with energy_remaining() = 0 and is_alive() = false.
C2_TickedOut ==
    (last.op = "tick" /\ last.ret = "BurntOut") =>
        (energy_remaining(fire) = 0 /\ ~is_alive(fire))

AllowedTransitions ==
    {<<"Fresh", "Fresh">>, <<"Fresh", "Burning">>, <<"Burning", "Burning">>,
     <<"Burning", "Fresh">>, <<"Burning", "Spent">>}

\* C9: in one tick an item only goes Fresh->Fresh, Fresh->Burning,
\* Burning->Burning, Burning->Fresh or Burning->Spent, and no item of the
\* collection is Spent in any reachable fire state.
C9_NoSpentKept ==
    /\ last.trans \subseteq AllowedTransitions
    /\ \A it \in ItemsOf(fire) : it.burned_state # "Spent"

\* a tick call in which an item went Burning->Spent
C9_Witness ==
    /\ <<"Burning", "Spent">> \in last.trans
    /\ last.ticks > 0

\* C10: every item of a reachable fire is Fresh if and only if its
\* activation progress is present.
C10_FreshIffProgress ==
    \A it \in ItemsOf(fire) : (it.burned_state = "Fresh") <=> is_some(it.activation_progress)

\* a fire holding a Burning item that ignited in the fire, after a tick call
\* in which an item went back from Burning to Fresh
C10_Witness ==
    /\ <<"Burning", "Fresh">> \in last.trans
    /\ \E it \in ItemsOf(fire) : it.burned_state = "Fresh"
    /\ \E it \in ItemsOf(fire) : it.burned_state = "Burning" /\ it.item # "MediumStick"

(***************************************************************************)
(* Properties of the craft                                                 *)
(***************************************************************************)
\* recipe time of the crafts (both recipes of the table take 100.0)
T == RECIPE_SET[1].craft_time

\* the time the fire gains in count ticks
TimeOf(f, count) == count * f.tick_resolution

\* C3, as claimed: on a craft driven by progress alone with positive slices
\* whose sum has not passed the recipe time, a progress that does not burn
\* out returns Ready when the sum reaches the recipe time and Pending before,
\* and time_alive advances by exactly the slice passed.
C3_Original ==
    [][(/\ last'.op = "progress" /\ last'.ret # "BurntOut"
        /\ progressed' # Reversed /\ last'.arg > 0
        /\ progressed' <= unwrap(craft).recipe_time) =>
         /\ last'.ret = IF progressed' = unwrap(craft).recipe_time THEN "Ready" ELSE "Pending"
         /\ fire'.time_alive = fire.time_alive + last'.arg]_vars

\* C3, amended: same calls, same Pending/Ready answers (Ready hands out the
\* products), and time_alive advances by the slice rounded up to whole
\* ticks, ceil(slice / tick_resolution) * tick_resolution, which is the slice
\* itself when the slice is a whole multiple of tick_resolution.
C3_Slices ==
    [][(/\ last'.op = "progress" /\ last'.ret # "BurntOut"
        /\ progressed' # Reversed /\ last'.arg > 0
        /\ progressed' <= unwrap(craft).recipe_time) =>
         /\ last'.ret = IF progressed' = unwrap(craft).recipe_time THEN "Ready" ELSE "Pending"
         /\ last'.ret = "Ready" => last'.out = unwrap(craft).products
         /\ fire'.time_alive >= fire.time_alive + last'.arg
         /\ fire'.time_alive < fire.time_alive + last'.arg + fire.tick_resolution
         /\ (fire'.time_alive - fire.time_alive) % fire.tick_resolution = 0
         /\ last'.arg % fire.tick_resolution = 0 =>
                fire'.time_alive = fire.time_alive + last'.arg]_vars

\* a craft made ready by the last of several slices summing to the recipe time
C3_Witness ==
    /\ last.op = "progress"
    /\ last.ret = "Ready"
    /\ progressed = T
    /\ last.arg < T
    /\ last.arg > 0

\* C4: progress returns Ready(products) iff max_time >= time_remaining, and
\* then the fire has made the ticks of time_remaining, not those of max_time;
\* otherwise it returns Pending with time_remaining decreased by max_time,
\* the fire having made the ticks of max_time, and recipe_time, ingredients
\* and products are unchanged.
C4_Progress ==
    [][(last'.op = "progress" /\ last'.ret # "BurntOut") =>
         IF last'.arg >= unwrap(craft).time_remaining
         THEN /\ last'.ret = "Ready"
              /\ last'.out = unwrap(craft).products
              /\ craft' = None
              /\ last'.ticks = CeilU32(unwrap(craft).time_remaining, fire.tick_resolution)
              /\ fire'.time_alive = fire.time_alive + TimeOf(fire, last'.ticks)
         ELSE /\ last'.ret = "Pending"
              /\ last'.out = <<>>
              /\ craft' # None
              /\ unwrap(craft').time_remaining = unwrap(craft).time_remaining - last'.arg
              /\ unwrap(craft').recipe_time = unwrap(craft).recipe_time
              /\ unwrap(craft').ingredients = unwrap(craft).ingredients
              /\ unwrap(craft').products = unwrap(craft).products
              /\ last'.ticks = CeilU32(last'.arg, fire.tick_resolution)
              /\ fire'.time_alive = fire.time_alive + TimeOf(fire, last'.ticks)]_vars

\* a craft made ready by a progress whose max_time is larger than the time
\* the fire was advanced for
C4_Witness ==
    /\ last.op = "progress"
    /\ last.ret = "Ready"
    /\ TimeOf(fire, last.ticks + 1) <= last.arg

CraftOps == {"progress", "complete", "cancel", "progress_cancel"}

\* smaller of two times
Min(a, b) == IF a <= b THEN a ELSE b

\* the ticks a call on craft c needs at tick resolution res
TicksNeeded(op, c, arg, res) ==
    CASE op = "complete" -> CeilU32(c.time_remaining, res)
      [] op = "progress" -> CeilU32(Min(arg, c.time_remaining), res)
      [] op = "cancel" -> CeilU32(c.recipe_time - c.time_remaining, UNCRAFT_MULTIPLIER * res)
      [] op = "progress_cancel" ->
            CeilU32(Min(UNCRAFT_MULTIPLIER * arg, c.recipe_time - c.time_remaining),
                    UNCRAFT_MULTIPLIER * res)

\* C5: progress, complete, cancel and progress_cancel return BurntOut exactly
\* when the fire has no Burning item before one of the ticks the call needs;
\* then nothing is handed out, no craft is handed back, and the ticks made
\* before the failing one stay applied to the fire.
C5_BurntOut ==
    [][last'.op \in CraftOps =>
         LET need == TicksNeeded(last'.op, unwrap(craft), last'.arg, fire.tick_resolution)
         IN  /\ (last'.ret = "BurntOut") <=> (last'.ticks < need)
             /\ last'.ret # "BurntOut" => last'.ticks = need
             /\ last'.ret = "BurntOut" =>
                  /\ NoBurning(fire')
                  /\ last'.out = <<>>
                  /\ craft' = None
             /\ last'.ticks > 0 => ~NoBurning(fire)
             /\ fire'.time_alive = fire.time_alive + TimeOf(fire, last'.ticks)
             /\ fire' = tick_loop(fire, last'.ticks).fire]_vars

\* a call on a craft that burnt out after some of its ticks had been made
C5_Witness ==
    /\ last.op \in CraftOps
    /\ last.ret = "BurntOut"
    /\ last.ticks > 0

\* C6: complete(fire) does what progress(fire, time_remaining) does: the same
\* fire afterwards, after the same ticks, and either both hand out the
\* products or both fail with BurntOut.
C6_CompleteIsProgress ==
    [][last'.op = "complete" =>
         LET p == progress(unwrap(craft), fire, unwrap(craft).time_remaining)
         IN  /\ fire' = p.fire
             /\ last'.ticks = p.ticks
             /\ last'.out = p.out
             /\ craft' = p.craft
             /\ \/ last'.ret = "Ok" /\ p.ret = "Ready" /\ last'.out = unwrap(craft).products
                \/ last'.ret = "BurntOut" /\ p.ret = "BurntOut"]_vars

\* a craft completed after part of its time had been progressed
C6_Witness ==
    /\ last.op = "complete"
    /\ last.ret = "Ok"
    /\ last.ticks > 0
    /\ TimeOf(fire, last.ticks) < T

\* C7: cancel makes the ticks of (recipe_time - time_remaining) / 4 rounded
\* up to whole ticks and hands out the ingredients; at tick resolution 1, a
\* craft of recipe time 100 cancelled with 50 remaining at time_alive 50 takes
\* 13 ticks and leaves time_alive at 63.
C7_Cancel ==
    [][(last'.op = "cancel" /\ last'.ret # "BurntOut") =>
         LET c == unwrap(craft)
             elapsed == c.recipe_time - c.time_remaining
             span == UNCRAFT_MULTIPLIER * fire.tick_resolution
         IN  /\ last'.out = c.ingredients
             /\ last'.ticks * span >= elapsed
             /\ elapsed > 0 => (last'.ticks - 1) * span < elapsed
             /\ elapsed <= 0 => last'.ticks = 0
             /\ fire'.time_alive = fire.time_alive + TimeOf(fire, last'.ticks)
             /\ (/\ fire.tick_resolution = 1 * TimeScale
                 /\ c.recipe_time = 100 * TimeScale
                 /\ c.time_remaining = 50 * TimeScale
                 /\ fire.time_alive = 50 * TimeScale) =>
                    (last'.ticks = 13 /\ fire'.time_alive = 63 * TimeScale)]_vars

\* the cancel of the example: 13 ticks, time_alive 63 at tick resolution 1
C7_Witness ==
    /\ last.op = "cancel"
    /\ last.ret = "Ok"
    /\ last.ticks = 13
    /\ fire.tick_resolution = 1 * TimeScale
    /\ fire.time_alive = 63 * TimeScale
    /\ last.out = <<<<"SmallStick", 3>>>>

\* C8: with u = (recipe_time - time_remaining) / 4, progress_cancel(m) with
\* 0 <= m < u returns Pending with time_remaining increased by 4m, so that
\* the new uncraft time is u - m, and with m >= u returns Ready(ingredients)
\* after the ticks of u only; m plus the uncraft time left is u.
C8_ProgressCancel ==
    [][(last'.op = "progress_cancel" /\ last'.ret # "BurntOut" /\ last'.arg >= 0) =>
         LET c == unwrap(craft)
             m == last'.arg
             elapsed == c.recipe_time - c.time_remaining
         IN  IF UNCRAFT_MULTIPLIER * m < elapsed
             THEN /\ last'.ret = "Pending"
                  /\ craft' # None
                  /\ unwrap(craft').recipe_time = c.recipe_time
                  /\ unwrap(craft').time_remaining >= c.time_remaining
                  /\ m > 0 => unwrap(craft').time_remaining > c.time_remaining
                  /\ unwrap(craft').time_remaining <= c.recipe_time
                  /\ unwrap(craft').recipe_time - unwrap(craft').time_remaining
                        = elapsed - UNCRAFT_MULTIPLIER * m
                  /\ uncraft_time(unwrap(craft')) + m = uncraft_time(c)
                  /\ last'.ticks = CeilU32(m, fire.tick_resolution)
             ELSE /\ last'.ret = "Ready"
                  /\ last'.out = c.ingredients
                  /\ craft' = None
                  /\ last'.ticks = CeilU32(elapsed, UNCRAFT_MULTIPLIER * fire.tick_resolution)]_vars

\* a craft partly reversed by a progress_cancel that returned Pending
C8_Witness ==
    /\ last.op = "progress_cancel"
    /\ last.ret = "Pending"
    /\ last.arg > 0
    /\ craft # None
    /\ unwrap(craft).time_remaining < unwrap(craft).recipe_time

(***************************************************************************)
(* Properties of the items over a tick                                     *)
(***************************************************************************)
\* the calls that tick the fire
TickOps == {"tick", "tick_multiple", "tick_time"}

\* item i of f is still in the collection after a tick of f
Kept(f, i) == item_tick(f, f.items[i]).burned_state # "Spent"

\* the place item i of f has in the collection after a tick of f that keeps it
NewIndex(f, i) == Cardinality({j \in 1..i : Kept(f, j)})

\* C11: over a tick the remaining_energy of every item kept is not negative
\* and not larger than before, and is unchanged unless the item was Burning
\* when the tick started.
C11_EnergyNeverIncreases ==
    [][(last'.op = "tick" /\ last'.ret = "Ok") =>
         \A i \in 1..Len(fire.items) :
            Kept(fire, i) =>
                LET before == fire.items[i]
                    after == fire'.items[NewIndex(fire, i)]
                IN  /\ after.remaining_energy >= 0
                    /\ after.remaining_energy <= before.remaining_energy
                    /\ before.burned_state # "Burning" =>
                          after.remaining_energy = before.remaining_energy]_vars

\* a Burning item whose energy runs out in a tick started below its
\* minimum activation temperature
Doomed(f, it) ==
    /\ it.burned_state = "Burning"
    /\ BurnEnergy(f, it).remaining_energy <= 0
    /\ f.temperature < it.fuel.minimum_activation_temperature

C13_BurningStaysBurning ==
    last.op \in TickOps => <<"Burning", "Fresh">> \notin last.trans

\* the fire f with its items in the order p[1], p[2], ...
Permuted(f, p) == [f EXCEPT !.items = [i \in 1..Len(f.items) |-> f.items[p[i]]]]

\* C14: a tick gives the same result whatever the order of the items: for
\* every permutation of the collection of a fire that can be ticked, the tick
\* of the permuted fire leaves the same temperature, time_alive and deltas,
\* keeps the same items, and leaves each of them in the same state.
C14_OrderIndependent ==
    is_alive(fire) =>
        \A p \in Permutations(1..Len(fire.items)) :
            LET fp == Permuted(fire, p)
                r == tick(fire).fire
                rp == tick(fp).fire
            IN  /\ rp.temperature = r.temperature
                /\ rp.time_alive = r.time_alive
                /\ rp.temperature_delta = r.temperature_delta
                /\ rp.energy_remaining_delta = r.energy_remaining_delta
                /\ Len(rp.items) = Len(r.items)
                /\ \A i \in 1..Len(fire.items) :
                      /\ Kept(fp, i) <=> Kept(fire, p[i])
                      /\ Kept(fp, i) =>
                            rp.items[NewIndex(fp, i)] = r.items[NewIndex(fire, p[i])]

\* a fire about to be ticked in which the tick spends one item, keeps
\* another, and the two are of different kinds
C14_Witness ==
    /\ is_alive(fire)
    /\ \E i, j \in 1..Len(fire.items) :
          /\ ~Kept(fire, i)
          /\ Kept(fire, j)
          /\ fire.items[i].item # fire.items[j].item

(***************************************************************************)
(* Properties of the time and of the temperature                           *)
(***************************************************************************)
\* C15: a tick_time(d) that does not fail makes exactly ceil(d / tick_resolution)
\* ticks, the least number of ticks whose time is at least d, so time_alive
\* advances by at least d and by less than d + tick_resolution; every
\* successful tick of any call advances time_alive by exactly tick_resolution.
C15_TickTime ==
    [][last'.op \in TickOps =>
         /\ fire'.time_alive = fire.time_alive + TimeOf(fire, last'.ticks)
         /\ (last'.op = "tick_time" /\ last'.ret = "Ok") =>
               /\ last'.ticks = CeilU32(last'.arg, fire.tick_resolution)
               /\ TimeOf(fire, last'.ticks) >= last'.arg
               /\ last'.ticks > 0 => TimeOf(fire, last'.ticks - 1) < last'.arg
               /\ fire'.time_alive >= fire.time_alive + last'.arg
               /\ fire'.time_alive < fire.time_alive + last'.arg + fire.tick_resolution]_vars

\* a tick_time that made several ticks for a duration that is not a whole
\* number of ticks
C15_Witness ==
    /\ last.op = "tick_time"
    /\ last.ret = "Ok"
    /\ last.ticks >= 2
    /\ TimeOf(fire, last.ticks) > last.arg

\* C16: the target temperature of the fire Fire::init() returns is the burn
\* temperature of its fuel, 873.15 K.
C16_InitTarget ==
    last.op = "init" =>
        target_temperature(fire) = unwrap(fuel("MediumStick")).burn_temperature

\* C17: on a fire with a Burning item and fresh_fuel_radiates disabled,
\* adding one or more items lowers target_temperature, and lowers it more
\* than adding an item of less energy and less than adding an item of more
\* energy would.
C17_FreshLowersTarget ==
    [][(/\ last'.op \in {"add_item", "add_items"}
        /\ last'.arg >= 1
        /\ is_alive(fire)
        /\ ~fire.fresh_fuel_radiates) =>
         LET gained == energy_remaining(fire') - energy_remaining(fire)
         IN  /\ target_temperature(fire') < target_temperature(fire)
             /\ \A id \in ItemId :
                  LET other == target_temperature(add_item(fire, id).fire)
                      energy == unwrap(fuel(id)).burn_energy
                  IN  /\ energy < gained => target_temperature(fire') < other
                      /\ energy > gained => target_temperature(fire') > other
                      /\ energy = gained => target_temperature(fire') = other]_vars

\* several items have just been added to a fire that has been burning for a
\* while and still burns
C17_Witness ==
    /\ last.op = "add_items"
    /\ last.arg >= 2
    /\ fire.time_alive > 0
    /\ is_alive(fire)

\* absolute value
Abs(x) == IF x >= 0 THEN x ELSE 0 - x

\* C18: a tick moves the temperature toward the target of the ticked items
\* and never past it: the difference target - temperature keeps its sign and
\* does not grow, and shrinks wherever the step is at least one unit of the
\* temperature grid, at every tick resolution.
C18_TowardTarget ==
    [][(last'.op = "tick" /\ last'.ret = "Ok" /\ fire'.items # <<>>) =>
         LET target == target_temperature(tick_items(fire))
             before == target - fire.temperature
             after == target - fire'.temperature
         IN  /\ before >= 0 => (after >= 0 /\ after <= before)
             /\ before <= 0 => (after <= 0 /\ after >= before)
             /\ Abs(before) * fire.tick_resolution >= 50 * TimeScale =>
                    Abs(after) < Abs(before)]_vars

\* C19: after a successful tick that leaves the fire without Burning items
\* the temperature is the ambient temperature.
C19_DeadIsAmbient ==
    (last.op \in TickOps /\ last.ticks > 0 /\ ~is_alive(fire)) =>
        fire.temperature = fire.ambient_temperature

\* C20: add_items(item, count) appends count items after the existing ones,
\* each Fresh with the fuel's burn_energy as remaining_energy and activation
\* progress 0, and changes nothing else; it fails, with NotFlammable and
\* nothing added, only for an item without fuel data.
C20_AddItems ==
    [][last'.op = "add_items" =>
         LET n == Len(fire.items)
             count == last'.arg
         IN  /\ last'.ret \in {"Ok", "NotFlammable"}
             /\ last'.ret = "NotFlammable" => fire' = fire
             /\ last'.ret = "Ok" =>
                  /\ Len(fire'.items) = n + count
                  /\ SubSeq(fire'.items, 1, n) = fire.items
                  /\ [fire' EXCEPT !.items = fire.items] = fire
                  /\ \A i \in (n + 1)..(n + count) :
                        LET it == fire'.items[i]
                        IN  /\ it.item \in ItemId
                            /\ it.fuel = unwrap(fuel(it.item))
                            /\ it.item = fire'.items[n + 1].item
                            /\ it.burned_state = "Fresh"
                            /\ it.remaining_energy = it.fuel.burn_energy
                            /\ it.activation_progress = Some(0)]_vars

\* two items have just been added at once to a fire that has been ticked
C20_Witness ==
    /\ last.op = "add_items"
    /\ last.ret = "Ok"
    /\ last.arg = 2
    /\ fire.time_alive > 0
    /\ Len(fire.items) >= 2
    /\ fire.items[Len(fire.items)].burned_state = "Fresh"
    /\ fire.items[Len(fire.items) - 1].burned_state = "Fresh"

(***************************************************************************)
(* Properties of the inventory and of Player::craft                        *)
(***************************************************************************)
\* the recipe has the item among its products
Produces(recipe, id) == \E i \in 1..Len(recipe.products) : recipe.products[i][1] = id

\* the recipes of the table that produce the item, in table order
RecipesFor(recipe_set, id) == SelectSeq(recipe_set, LAMBDA r : Produces(r, id))

\* the inventory holds every listed item in at least the listed quantity
HasAll(inv, wanted_items) ==
    \A i \in 1..Len(wanted_items) : held(inv, wanted_items[i][1]) >= wanted_items[i][2]

\* the quantity of the item that the list asks for, over all its entries
RECURSIVE Asked(_, _)
Asked(wanted_items, id) ==
    IF wanted_items = <<>> THEN 0
    ELSE (IF wanted_items[1][1] = id THEN wanted_items[1][2] ELSE 0)
         + Asked(Tail(wanted_items), id)

\* the mass in grams of the listed items
RECURSIVE MassOf(_)
MassOf(wanted_items) ==
    IF wanted_items = <<>> THEN 0
    ELSE mass(wanted_items[1][1]) * wanted_items[1][2] + MassOf(Tail(wanted_items))

\* inv is before with exactly the listed items removed
Removed(before, inv, wanted_items) ==
    /\ \A id \in ItemId : held(inv, id) = held(before, id) - Asked(wanted_items, id)
    /\ inv.used_capacity =
          [before.used_capacity EXCEPT !.current = @ - MassOf(wanted_items)]

C22_CraftTakesFirst ==
    [][last'.op = "craft" =>
        LET recipes == RecipesFor(last'.arg[2], last'.arg[1])
        IN  /\ last'.ret = "Ok" =>
                  \E k \in 1..Len(recipes) :
                      /\ HasAll(inventory, recipes[k].ingredients)
                      /\ \A j \in 1..(k - 1) : ~HasAll(inventory, recipes[j].ingredients)
                      /\ Removed(inventory, inventory', recipes[k].ingredients)
                      /\ craft' # None
                      /\ unwrap(craft').ingredients = recipes[k].ingredients
                      /\ unwrap(craft').products = recipes[k].products
                      /\ unwrap(craft').time_remaining = recipes[k].craft_time
                      /\ unwrap(craft').recipe_time = recipes[k].craft_time
            /\ last'.ret \in {"NoRecipe", "MissingIngredients"} => inventory' = inventory
      ]_vars

\* a craft made from the second recipe of a product, the inventory holding
\* more than the recipe asked for
C22_Witness ==
    /\ last.op = "craft"
    /\ last.ret = "Ok"
    /\ last.arg[2] = ALTERNATE_RECIPE_SET
    /\ unwrap(craft).recipe_time = ALTERNATE_RECIPE_SET[2].craft_time
    /\ held(inventory, "Twig") > 0

\* C23: take_vec_if_enough either returns Ok, every listed item removed in
\* the listed quantity, or returns NotEnoughVec, the inventory as it was; a
\* list that names an item twice is no exception.
C23_AllOrNothing ==
    [][last'.op = "take_vec_if_enough" =>
        \/ last'.ret = "Ok" /\ Removed(inventory, inventory', last'.arg)
        \/ last'.ret = "NotEnoughVec" /\ inventory' = inventory
      ]_vars

\* the entries <<item, wanted - held>> of the wanted items that the inventory
\* holds fewer of than wanted
Shortfall(inv, wanted_items) ==
    LET lacking == SelectSeq(wanted_items, LAMBDA w : held(inv, w[1]) < w[2])
    IN  [i \in 1..Len(lacking) |-> <<lacking[i][1], lacking[i][2] - held(inv, lacking[i][1])>>]

\* C24: when the inventory lacks one of the wanted items, the shortfall
\* reported lists the items it holds fewer of than wanted, each with the
\* quantity wanted - held, and no other item.
C24_ShortfallExact ==
    [][(last'.op = "take_vec_if_enough" /\ ~HasAll(inventory, last'.arg)) =>
        /\ last'.ret = "NotEnoughVec"
        /\ last'.out = Shortfall(inventory, last'.arg)
      ]_vars

\* C25: insert(item, count) of mass m returns NoCapacity when m exceeds the
\* maximum capacity, NoAvailableCapacity when m fits the maximum and exceeds
\* max - used, and else adds count to the item and m to the used capacity;
\* an error leaves the inventory as it was.
C25_InsertCapacity ==
    [][last'.op = "insert" =>
        LET id == last'.arg[1]
            count == last'.arg[2]
            m == mass(id) * count
            b == inventory.used_capacity
        IN  IF m > b.max
            THEN last'.ret = "NoCapacity" /\ inventory' = inventory
            ELSE IF m > b.max - b.current
            THEN last'.ret = "NoAvailableCapacity" /\ inventory' = inventory
            ELSE /\ last'.ret = "Ok"
                 /\ \A k \in ItemId :
                       held(inventory', k) = held(inventory, k) + (IF k = id THEN count ELSE 0)
                 /\ inventory'.used_capacity = [b EXCEPT !.current = @ + m]
      ]_vars

\* an insert refused for the room left, in an inventory that holds
\* something, the mass fitting the maximum capacity
C25_Witness ==
    /\ last.op = "insert"
    /\ last.ret = "NoAvailableCapacity"
    /\ inventory.used_capacity.current > 0
    /\ mass(last.arg[1]) * last.arg[2] <= inventory.used_capacity.max

(***************************************************************************)
(* Properties of BoundedFloat                                              *)
(***************************************************************************)
\* min <= current <= max on f64
Valid(b) == b.current # NaN /\ b.min <= b.current /\ b.current <= b.max

\* value brought into [min, max]
Clamp(b, value) == IF value < b.min THEN b.min ELSE IF value > b.max THEN b.max ELSE value

\* C26: BoundedFloat::new(current, min, max) fails with InvalidBounds if
\* max < min, else with TooLow if current < min, else with TooHigh if
\* current > max, and succeeds exactly when min <= current <= max, storing
\* the three values.
C26_NewChecks ==
    last.op = "new" =>
        LET current == last.arg[1]
            min == last.arg[2]
            max == last.arg[3]
        IN  /\ max < min => last.ret = "InvalidBounds"
            /\ (max >= min /\ current < min) => last.ret = "TooLow"
            /\ (max >= min /\ current >= min /\ current > max) => last.ret = "TooHigh"
            /\ last.ret = "Ok" <=> (min <= current /\ current <= max)
            /\ last.ret = "Ok" =>
                  hit_points = Some([current |-> current, min |-> min, max |-> max])
            /\ last.ret # "Ok" => hit_points = None

\* new called with max below min and current below min
C26_Witness ==
    /\ last.op = "new"
    /\ last.arg[3] < last.arg[2]
    /\ last.arg[1] < last.arg[2]
    /\ last.ret = "InvalidBounds"

\* C27: on a valid BoundedFloat b, b + v, b - v, b * v and b / v keep min and
\* max and leave as current value the arithmetic result brought into
\* [min, max]; a quotient by zero, which has no arithmetic result, is at
\* least left in [min, max].
C27_Saturates ==
    [][(last'.op \in {"add", "sub", "mul", "div"} /\ hit_points # None
          /\ Valid(unwrap(hit_points))) =>
        LET b == unwrap(hit_points)
            v == last'.arg
            c == unwrap(hit_points')
        IN  /\ last'.ret = "Ok"
            /\ c.min = b.min
            /\ c.max = b.max
            /\ Valid(c)
            /\ last'.op = "add" => c.current = Clamp(b, b.current + v)
            /\ last'.op = "sub" => c.current = Clamp(b, b.current - v)
            /\ last'.op = "mul" => c.current = Clamp(b, f64_mul(b.current, v))
            /\ (last'.op = "div" /\ v # 0) => c.current = Clamp(b, f64_div(b.current, v))
      ]_vars

\* C28: a BoundedFloat that new returned stays valid through its operations:
\* min <= current <= max.
C28_StaysValid == hit_points # None => Valid(unwrap(hit_points))

RECURSIVE HeldMass(_, _)
HeldMass(inv, ids) ==
    IF ids = {} THEN 0
    ELSE LET id == CHOOSE k \in ids : TRUE
         IN  mass(id) * inv.items[id] + HeldMass(inv, ids \ {id})

C38_UsedCapacity ==
    /\ inventory.used_capacity.current = HeldMass(inventory, DOMAIN inventory.items)
    /\ 0 <= inventory.used_capacity.current
    /\ inventory.used_capacity.current <= inventory.used_capacity.max
    /\ inventory.used_capacity.max \in CapacitySet

\* two kinds of items are held after a take that left some of the item taken from
C38_Witness ==
    /\ last.op \in {"take_one", "take_amount"}
    /\ last.ret = "Ok"
    /\ held(inventory, last.arg[1]) > 0
    /\ Cardinality(DOMAIN inventory.items) >= 2

C35_PendingInRange ==
    [][(last'.op \in {"progress", "progress_cancel"} /\ last'.ret = "Pending") =>
         /\ craft' # None
         /\ 0 < unwrap(craft').time_remaining
         /\ unwrap(craft').time_remaining <= unwrap(craft').recipe_time
         /\ uncraft_time(unwrap(craft')) >= 0
         /\ unwrap(craft').recipe_time = unwrap(craft).recipe_time
         /\ unwrap(craft').ingredients = unwrap(craft).ingredients
         /\ unwrap(craft').products = unwrap(craft).products
      ]_vars

\* a craft handed back by a progress_cancel that undid a positive time
C35_Witness ==
    /\ last.op = "progress_cancel"
    /\ last.ret = "Pending"
    /\ last.arg > 0
    /\ craft # None
    /\ unwrap(craft).time_remaining < unwrap(craft).recipe_time

\* C31: a fire without a Burning item stays without one through add_item,
\* add_items, tick, tick_multiple and tick_time: a tick() on it returns
\* BurntOut and leaves it as it was, the items it holds are kept, and every
\* item added to it is Fresh and stays Fresh.
C31_DeadStaysDead ==
    [][NoBurning(fire) =>
         /\ NoBurning(fire')
         /\ Len(fire'.items) >= Len(fire.items)
         /\ SubSeq(fire'.items, 1, Len(fire.items)) = fire.items
         /\ \A i \in 1..Len(fire'.items) : fire'.items[i].burned_state = "Fresh"
         /\ last'.op = "tick" => last'.ret = "BurntOut" /\ fire' = fire
         /\ (last'.op \in {"tick_multiple", "tick_time"} /\ last'.ticks = 0
             /\ last'.ret = "BurntOut") => fire' = fire
         /\ last'.op \in {"tick", "tick_multiple", "tick_time"} => last'.ticks = 0
      ]_vars

\* a tick that returned BurntOut on a fire holding an item added to it and
\* no Burning item
C31_Witness ==
    /\ last.op = "tick"
    /\ last.ret = "BurntOut"
    /\ NoBurning(fire)
    /\ \E it \in ItemsOf(fire) : it.item # "MediumStick" /\ it.burned_state = "Fresh"

\* C33: tick_multiple(n) returns Ok exactly when the fire has a Burning item
\* before each of its n ticks; the fire is not looked at after the last
\* tick, so the call can return Ok and leave a fire without a Burning item.
C33_CheckedBeforeEachTick ==
    [][last'.op = "tick_multiple" =>
         /\ (last'.ret = "Ok") <=>
              \A k \in 0..(last'.arg - 1) : ~NoBurning(tick_loop(fire, k).fire)
         /\ last'.ret = "Ok" => fire' = tick_loop(fire, last'.arg).fire
      ]_vars

\* a tick_multiple that returned Ok on its ticks and left no Burning item
C33_Witness ==
    /\ last.op = "tick_multiple"
    /\ last.ret = "Ok"
    /\ last.ticks >= 1
    /\ NoBurning(fire)

(***************************************************************************)
(* Properties of a fire ticked until it burns out                          *)
(***************************************************************************)
\* C32: once no more items are added, repeated calls of tick() eventually
\* return BurntOut.
C32_BurnsOut == <>(last.op = "tick" /\ last.ret = "BurntOut")

\* a tick that returned BurntOut on a fire that had lived 200 time units
C32_Witness ==
    /\ last.op = "tick"
    /\ last.ret = "BurntOut"
    /\ fire.time_alive >= 200 * TimeScale
    /\ fire.tick_resolution = 1 * TimeScale

\* C36: at a tick resolution of 50 at most the temperature of the fire stays
\* between the ambient temperature and the highest burn temperature of the
\* fuels put in the fire.
C36_TemperatureRange ==
    LET put == {unwrap(fuel(id)).burn_temperature : id \in {"MediumStick"} \cup AddSet}
        highest == CHOOSE t \in put : \A u \in put : u <= t
    IN  fire.tick_resolution <= 50 * TimeScale =>
            /\ fire.ambient_temperature <= fire.temperature
            /\ fire.temperature <= highest

\* a fire at tick resolution 50 holding an added item, ticked to a
\* temperature below the minimum activation temperature of wood
C36_Witness ==
    /\ fire.tick_resolution = 50 * TimeScale
    /\ last.op = "tick"
    /\ last.ret = "Ok"
    /\ added > 0
    /\ fire.temperature < 10663
    /\ fire.temperature > fire.ambient_temperature

====
